---------------------------- MODULE Spec2Model ----------------------------
(***************************************************************************)
(* Attendance core of nightdread/attendance_system: the single-use token   *)
(* protocol, the per-user in/out state machine on the append-only event    *)
(* log, and the read-through token cache.                                  *)
(*                                                                         *)
(* The store is SQLite: every SQL statement runs on its own connection and *)
(* commits by itself, so one statement is one atomic step and a method     *)
(* that issues several statements (or a statement and a cache call) is a   *)
(* sequence of steps.  The backend, the bot and the maintenance tools are  *)
(* separate OS processes on the same database file (src/run.py), and the   *)
(* Database class holds no lock of its own, so the steps of different      *)
(* requests interleave.                                                    *)
(*                                                                         *)
(* Time is counted in ticks, DayLen ticks to a calendar day (UTC).         *)
(***************************************************************************)
EXTENDS Integers, Sequences, FiniteSets, TLC

VARIABLES
    now,          \* the wall clock (UTC), in ticks
    tokens,       \* table tokens: token value (index) -> row
    events,       \* table events: id (index) -> row
    people,       \* table people: the registered tg_user_id values
    tokenCache,   \* cache entries "token:{value}"
    backend,      \* "redis" or "memory" (Cache.redis_client set or None),
                  \* "down" (set, and every call on it raises)
    reportCache,  \* cache entries "analytics:daily:{date}" and "analytics:weekly"
    limiter,      \* Redis keys "{prefix}:count:{ip}" and "{prefix}:block:{ip}"
    reminder_sent,\* AttendanceBot.reminder_sent: the user ids that are its keys
    job,          \* the position of check_and_send_reminders and its locals
    reminders,    \* the reminder messages delivered, in order (history)
    req           \* the requests in flight and finished: slot -> record

storeVars == <<tokens, events, people>>
cacheVars == <<tokenCache, backend, reportCache, limiter>>
botVars == <<reminder_sent, job, reminders>>
vars == <<now, tokens, events, people, tokenCache, backend, reportCache, limiter,
          reminder_sent, job, reminders, req>>

----------------------------------------------------------------------------
(* Bounds of the model *)

NumReq == 3        \* request slots; each slot serves one request
NumUsers == 2      \* Telegram users
DayLen == 3        \* ticks per calendar day
MaxTime == 4       \* last tick of the clock in SpecToken and SpecCache
MaxEventTime == 1  \* last tick of the clock in Spec, SpecScan and SpecLog
MaxEvents == 3     \* rows of the event log in SpecLog, SpecCompare and SpecAgg
MaxAggTime == 3    \* last tick of the clock in SpecAgg and SpecTop
MaxTopEvents == 6  \* rows of the event log in SpecTop
MaxUserEvents == 4 \* rows of one user in SpecTop
NumIps == 2        \* client addresses in SpecLimit
MaxRemindTime == 4 \* last tick of the clock in SpecRemind

Req == 1..NumReq
Users == 1..NumUsers
Ips == 1..NumIps
\* the token values: the initial token and at most one more per request,
\* and one value that is never stored
TokenValues == 1..(NumReq + 2)

----------------------------------------------------------------------------
(* Text forms of timestamps.                                               *)
(* A timestamp string is modelled by the sequence of its three parts that  *)
(* decide a string comparison: the date, the separator character (by its   *)
(* character code) and the time of day.                                    *)

SepT == 84         \* ord("T"), the separator datetime.isoformat() writes
SepSpace == 32     \* ord(" "), the separator SQLite datetime('now') writes

DateOf(t) == t \div DayLen
TimeOfDay(t) == t % DayLen

\* the dates a report may be asked for
ReportDates == 0..DateOf(MaxTime)

\* datetime.isoformat(): "YYYY-MM-DDTHH:MM:SS.ffffff"
IsoFormat(t) == <<DateOf(t), SepT, TimeOfDay(t)>>

\* SQLite datetime('now'): "YYYY-MM-DD HH:MM:SS"
SqliteDatetimeNow(t) == <<DateOf(t), SepSpace, TimeOfDay(t)>>

\* datetime.fromisoformat(): the instant a timestamp string denotes
IsoParse(s) == s[1] * DayLen + s[3]

\* SQLite's comparison of two TEXT values (BINARY collation): a > b
TextGreater(a, b) ==
    \E i \in 1..3 : a[i] > b[i] /\ \A j \in 1..(i - 1) : a[j] = b[j]

----------------------------------------------------------------------------
(* Requests.  A slot holds one request: its kind, its position in the      *)
(* handler, its arguments, what it has read so far and what it returned.   *)
(* expired (the token's expires_at had passed when the request was made)   *)
(* and late (the token had already been consumed by a call that returned   *)
(* true when the request was made) are history fields read only by the     *)
(* properties, as is top (the action of the user's highest-id event when   *)
(* the request read the user's latest event).  period, stats and diff are  *)
(* the arguments, the first result and the comparison of compare_periods.  *)
(* For a cached report period is the arguments, stats what the queries     *)
(* have read and result what the call returned (<<>> while it runs); hit   *)
(* (the result came from the cache), age (the ticks since the entry served *)
(* was written) and from (the call that wrote it) are history fields.      *)

Idle ==
    [kind |-> "idle", pc |-> "idle", user |-> 0, action |-> "-",
     token |-> 0, ret |-> "pending", seen |-> "-", loc |-> "-",
     ts |-> 0, outcome |-> "pending", top |-> "-", expired |-> FALSE,
     late |-> FALSE, period |-> <<>>, stats |-> <<>>, diff |-> <<>>,
     result |-> <<>>, hit |-> FALSE, age |-> 0, from |-> <<>>]

\* slots are taken in order, each once
CanStart(p) ==
    /\ req[p].kind = "idle"
    /\ p > 1 => req[p - 1].kind # "idle"

Bool(b) == IF b THEN "true" ELSE "false"

\* a call of mark_token_used_if_valid on token t has returned true
ConsumeReturned(t) ==
    \E q \in Req :
        /\ req[q].kind \in {"consume", "callback"}
        /\ req[q].token = t
        /\ req[q].ret = "true"
        /\ req[q].pc \notin {"mark_update", "invalidate"}

----------------------------------------------------------------------------
(* Cache.get, Cache.set and Cache.delete on one key.  entry is what the    *)
(* backend holds under the key, none the value that stands for no entry.   *)
(* Each returns what the caller receives: raised (an exception leaves the  *)
(* method) and value (for get the value returned, for set and delete the   *)
(* entry the backend holds afterwards).                                    *)

\* a get without the try/except: the error of the backend reaches the caller
GetRaising(entry, none) ==
    [raised |-> backend = "down", value |-> IF backend = "down" THEN none ELSE entry]

\* try: redis_client.get(key) or memory_cache.get(key); except: return None
Get(entry, none) ==
    [raised |-> FALSE, value |-> IF backend = "down" THEN none ELSE entry]

\* try: redis_client.set(key, value, ex=ttl) or memory_cache[key] = value;
\* except: return False
Set(entry, value) ==
    [raised |-> FALSE, value |-> IF backend = "down" THEN entry ELSE value]

\* try: redis_client.delete(key) or del memory_cache[key]; except: return False
Delete(entry, none) ==
    [raised |-> FALSE, value |-> IF backend = "down" THEN entry ELSE none]

----------------------------------------------------------------------------
(* Database.create_token *)

\* by: the request that created the row (0: the setup script), a history field
NewToken(t, p) ==
    [created_at |-> IsoFormat(t), expires_at |-> IsoFormat(t + DayLen), used |-> 0,
     by |-> p]

\* the token has a row and its expires_at has passed at time t
Expired(tok, t) ==
    /\ tok \in DOMAIN tokens
    /\ IsoParse(tokens[tok].expires_at) < t

\* the token has a row, is unused and its expires_at has not passed at time t
Fresh(tok, t) ==
    /\ tok \in DOMAIN tokens
    /\ tokens[tok].used = 0
    /\ ~Expired(tok, t)

\* the token values a request may present: the stored ones and an unknown one
Presentable == 1..(Len(tokens) + 1)

(* Database.mark_token_used_if_valid: the WHERE clause of the UPDATE, for  *)
(* the row of the given token at clock t.  expires_at is NOT NULL in the   *)
(* schema, so the IS NULL alternative never applies.                       *)
UpdateWhereNoUsedCheck(row, t) ==
    TextGreater(row.expires_at, SqliteDatetimeNow(t))

UpdateWhere(row, t) ==
    /\ row.used = 0
    /\ TextGreater(row.expires_at, SqliteDatetimeNow(t))

StartConsume(p, t) ==
    /\ CanStart(p)
    /\ req' = [req EXCEPT ![p] =
                 [Idle EXCEPT !.kind = "consume", !.pc = "mark_update",
                              !.token = t, !.expired = Expired(t, now)]]
    /\ UNCHANGED <<now, storeVars, cacheVars, botVars>>

\* cursor.execute("UPDATE tokens SET used = 1 WHERE ..."); rowcount > 0; commit
MarkUpdate(p) ==
    /\ req[p].pc = "mark_update"
    /\ LET t == req[p].token
           success == t \in DOMAIN tokens /\ UpdateWhere(tokens[t], now)
       IN  /\ tokens' = IF success THEN [tokens EXCEPT ![t].used = 1] ELSE tokens
           /\ req' = [req EXCEPT ![p].ret = Bool(success),
                                 ![p].seen = Bool(Fresh(t, now)),
                                 ![p].pc = IF success THEN "invalidate" ELSE "done"]
    /\ UNCHANGED <<now, events, people, cacheVars, botVars>>

\* if success: invalidate_token(token); return success
Invalidate(p) ==
    /\ req[p].pc = "invalidate"
    /\ tokenCache' = [tokenCache EXCEPT ![req[p].token] =
                         Delete(tokenCache[req[p].token], "miss").value]
    /\ req' = [req EXCEPT ![p].pc =
                 IF req[p].kind = "consume" THEN "done" ELSE "get_person"]
    /\ UNCHANGED <<now, storeVars, backend, botVars, reportCache, limiter>>

----------------------------------------------------------------------------
(* Database.is_token_valid, as called by AttendanceBot.handle_token_start *)

StartValid(p, t) ==
    /\ CanStart(p)
    /\ req' = [req EXCEPT ![p] =
                 [Idle EXCEPT !.kind = "valid", !.pc = "cache_get",
                              !.token = t, !.expired = Expired(t, now),
                              !.late = ConsumeReturned(t)]]
    /\ UNCHANGED <<now, storeVars, cacheVars, botVars>>

\* cached_result = get_cached_token(token); a hit is returned as it is
CacheGet(p) ==
    /\ req[p].pc = "cache_get"
    /\ LET got == Get(tokenCache[req[p].token], "miss")
           c == got.value
       IN  req' = [req EXCEPT ![p].ret = IF got.raised THEN "raised"
                                         ELSE IF c = "miss" THEN "pending"
                                         ELSE Bool(c = "valid"),
                              ![p].pc = IF got.raised \/ c # "miss" THEN "done"
                                        ELSE "db_read"]
    /\ UNCHANGED <<now, storeVars, cacheVars, botVars>>

\* SELECT used FROM tokens WHERE token = ? AND used = 0
SelectUnused(t) == t \in DOMAIN tokens /\ tokens[t].used = 0

DbRead(p) ==
    /\ req[p].pc = "db_read"
    /\ req' = [req EXCEPT ![p].seen = IF SelectUnused(req[p].token) THEN "valid" ELSE "invalid",
                          ![p].pc = "cache_set"]
    /\ UNCHANGED <<now, storeVars, cacheVars, botVars>>

\* set_cached_token(token, {"valid": is_valid}); return is_valid
CacheSet(p) ==
    /\ req[p].pc = "cache_set"
    /\ tokenCache' = [tokenCache EXCEPT ![req[p].token] =
                         Set(tokenCache[req[p].token], req[p].seen).value]
    /\ req' = [req EXCEPT ![p].ret = Bool(req[p].seen = "valid"), ![p].pc = "done"]
    /\ UNCHANGED <<now, storeVars, backend, botVars, reportCache, limiter>>

\* Redis drops an entry when its TTL (CACHE_TTL_TOKEN) has run out; the
\* in-memory fallback keeps no TTL
CacheExpire(t) ==
    /\ backend = "redis"
    /\ tokenCache[t] # "miss"
    /\ tokenCache' = [tokenCache EXCEPT ![t] = "miss"]
    /\ UNCHANGED <<now, storeVars, backend, botVars, reportCache, limiter, req>>

----------------------------------------------------------------------------
(* The terminal's get-or-create: get_active_token() and, when it finds     *)
(* none, create_token() (backend/main.py).                                 *)

\* SELECT * FROM tokens WHERE used = 0 ORDER BY created_at DESC LIMIT 1:
\* the rows that may come first (rows with equal created_at in any order)
ActiveTokenRows ==
    {t \in DOMAIN tokens :
        /\ tokens[t].used = 0
        /\ \A u \in DOMAIN tokens :
              tokens[u].used = 0 => ~TextGreater(tokens[u].created_at, tokens[t].created_at)}

StartTerminal(p) ==
    /\ CanStart(p)
    /\ req' = [req EXCEPT ![p] =
                 [Idle EXCEPT !.kind = "terminal", !.pc = "get_active"]]
    /\ UNCHANGED <<now, storeVars, cacheVars, botVars>>

GetActive(p) ==
    /\ req[p].pc = "get_active"
    /\ \/ /\ ActiveTokenRows = {}
          /\ req' = [req EXCEPT ![p].pc = "create_token"]
       \/ \E t \in ActiveTokenRows :
             req' = [req EXCEPT ![p].token = t, ![p].ret = "true", ![p].pc = "done",
                                ![p].expired = Expired(t, now)]
    /\ UNCHANGED <<now, storeVars, cacheVars, botVars>>

\* INSERT INTO tokens (...) VALUES (?, 'global', now, now + 24h, 0)
CreateToken(p) ==
    /\ req[p].pc = "create_token"
    /\ tokens' = Append(tokens, NewToken(now, p))
    /\ req' = [req EXCEPT ![p].token = IF req[p].kind = "terminal" THEN Len(tokens) + 1
                                       ELSE req[p].token,
                          ![p].ret = "true", ![p].pc = "done"]
    /\ UNCHANGED <<now, events, people, cacheVars, botVars>>

----------------------------------------------------------------------------
(* The event log and the per-user state machine of the bot handlers.       *)

\* AttendanceBot.handle_text_message: create_person for a new user
RegisterPerson(u) ==
    /\ u \notin people
    /\ people' = people \cup {u}
    /\ UNCHANGED <<now, tokens, events, cacheVars, botVars, req>>

\* the rows of one user
EventsOf(u) == {i \in DOMAIN events : events[i].user_id = u}

\* the user's event with the highest id, 0 if there is none
MaxId(u) == IF EventsOf(u) = {} THEN 0
            ELSE CHOOSE i \in EventsOf(u) : \A j \in EventsOf(u) : j <= i

LastAction(u) == IF MaxId(u) = 0 THEN "none" ELSE events[MaxId(u)].action

\* the ways to list the rows of user u, each once
Listings(u) ==
    LET k == Cardinality(EventsOf(u))
    IN  {s \in [1..k -> EventsOf(u)] : \A a, b \in 1..k : a # b => s[a] # s[b]}

Min(a, b) == IF a < b THEN a ELSE b

(* Database.get_user_events(user_id, limit):                               *)
(*   SELECT * FROM events WHERE user_id = ? ORDER BY ts DESC LIMIT ?       *)
(* The lists of row ids the query may return: SQL leaves the order of rows *)
(* with equal ts open.  All ts values are written by create_event in one   *)
(* format, so their order as text is their order in time.                  *)
GetUserEvents(u, limit) ==
    {SubSeq(s, 1, Min(limit, Len(s))) :
        s \in {l \in Listings(u) :
                 \A a, b \in 1..Len(l) : a < b => events[l[a]].ts >= events[l[b]].ts}}

\* SELECT MAX(id) FROM events, the subquery below without its GROUP BY
MaxIdNoGroupBy == IF events = <<>> THEN {} ELSE {Len(events)}

\* SELECT MAX(id) FROM events GROUP BY user_id
MaxIdByUser ==
    {i \in DOMAIN events :
        \A j \in DOMAIN events : events[j].user_id = events[i].user_id => j <= i}

(* Database.get_currently_present:                                         *)
(*   SELECT e.*, p.fio FROM events e JOIN people p                         *)
(*     ON e.user_id = p.tg_user_id                                         *)
(*   WHERE e.id IN (SELECT MAX(id) FROM events GROUP BY user_id)           *)
(*     AND e.action = 'in' ORDER BY e.ts DESC                              *)
(* The ids of the rows returned.                                           *)
GetCurrentlyPresent ==
    {i \in DOMAIN events :
        /\ events[i].user_id \in people
        /\ i \in MaxIdByUser
        /\ events[i].action = "in"}

\* the handler's use of the row read: the action and location of
\* last_events[0], "none" when the list is empty
ReadLatest(p, i) ==
    [req[p] EXCEPT !.seen = IF i = 0 THEN "none" ELSE events[i].action,
                   !.loc = IF i = 0 THEN req[p].loc
                           ELSE IF req[p].kind = "reminder" THEN events[i].location
                           ELSE req[p].loc,
                   !.top = LastAction(req[p].user)]

\* handle_callback: the duplicate-state test on last_events
CallbackRejects(action, seen) ==
    \/ action = "in" /\ seen = "in"
    \/ action = "out" /\ seen = "out"
    \/ action = "out" /\ seen = "none"

\* handle_remote_start: last_events and last_events[0]["action"] == "in"
RemoteStartRejects(seen) == seen = "in"

\* handle_remote_end: not last_events or action != "in" or location != "remote"
RemoteEndRejects(seen, location) == seen # "in" \/ location # "remote"

\* handle_reminder_checkout: not last_events or action != "in"
ReminderRejects(seen) == seen # "in"

Rejects(r, location) ==
    CASE r.kind = "callback" -> CallbackRejects(r.action, r.seen)
      [] r.kind = "remote_start" -> RemoteStartRejects(r.seen)
      [] r.kind = "remote_end" -> RemoteEndRejects(r.seen, location)
      [] r.kind = "reminder" -> ReminderRejects(r.seen)

\* a scan's button press: callback data "checkin:<token>" or "checkout:<token>".
\* The buttons are sent by show_action_buttons, which the bot calls only with
\* the person's record in hand.
StartCallback(p, u, a, t) ==
    /\ CanStart(p)
    /\ u \in people
    /\ req' = [req EXCEPT ![p] =
                 [Idle EXCEPT !.kind = "callback", !.pc = "mark_update", !.user = u,
                              !.action = a, !.token = t, !.loc = "global",
                              !.expired = Expired(t, now)]]
    /\ UNCHANGED <<now, storeVars, cacheVars, botVars>>

\* callback data "remote_start", "remote_end", "reminder_checkout"; these
\* buttons too are sent to registered users only (handle_remote_work_menu,
\* check_and_send_reminders)
StartRemote(p, u, k) ==
    /\ CanStart(p)
    /\ u \in people
    /\ req' = [req EXCEPT ![p] =
                 [Idle EXCEPT !.kind = k, !.pc = "get_person", !.user = u,
                              !.action = IF k = "remote_start" THEN "in" ELSE "out",
                              !.loc = IF k = "reminder" THEN "-" ELSE "remote"]]
    /\ UNCHANGED <<now, storeVars, cacheVars, botVars>>

\* person = self.db.get_person_by_tg_id(user.id); if not person: return
GetPerson(p) ==
    /\ req[p].pc = "get_person"
    /\ req' = [req EXCEPT ![p].pc = IF req[p].user \in people THEN "get_user_events"
                                    ELSE "done",
                          ![p].outcome = IF req[p].user \in people THEN "pending"
                                         ELSE "rejected"]
    /\ UNCHANGED <<now, storeVars, cacheVars, botVars>>

\* last_events = self.db.get_user_events(user.id, limit=1) and the test on it
CheckLastEvent(p) ==
    /\ req[p].pc = "get_user_events"
    /\ \E last_events \in GetUserEvents(req[p].user, 1) :
          LET i == IF last_events = <<>> THEN 0 ELSE last_events[1]
              r == ReadLatest(p, i)
              location == IF i = 0 THEN "-" ELSE events[i].location
          IN  req' = [req EXCEPT ![p] =
                        IF Rejects(r, location)
                        THEN [r EXCEPT !.pc = IF r.kind = "reminder"
                                              THEN "clear_reminder" ELSE "done",
                                       !.outcome = "rejected"]
                        ELSE [r EXCEPT !.pc = "create_event"]]
    /\ UNCHANGED <<now, storeVars, cacheVars, botVars>>

\* Database.create_event: now = datetime.now(timezone.utc).isoformat()
ReadClock(p) ==
    /\ req[p].pc = "create_event"
    /\ req' = [req EXCEPT ![p].ts = now, ![p].pc = "insert_event"]
    /\ UNCHANGED <<now, storeVars, cacheVars, botVars>>

\* Database.create_event: INSERT INTO events (...) VALUES (..., now); commit.
\* by: the request that appended the row, a history field.  edge: the clock
\* was read in the last second of the day of ts (23:59:59 or later)
CreateEvent(p) ==
    /\ req[p].pc = "insert_event"
    /\ events' = Append(events,
                   [user_id |-> req[p].user, location |-> req[p].loc,
                    action |-> req[p].action, ts |-> req[p].ts, by |-> p,
                    edge |-> FALSE])
    /\ req' = [req EXCEPT ![p].outcome = "accepted", ![p].ts = 0,
                          ![p].pc = IF req[p].kind = "callback" THEN "create_token"
                                    ELSE IF req[p].kind = "reminder"
                                    THEN "clear_reminder"
                                    ELSE "done"]
    /\ UNCHANGED <<now, tokens, people, cacheVars, botVars>>

\* handle_reminder_checkout, after await query.edit_message_text(...):
\* if user.id in self.reminder_sent: del self.reminder_sent[user.id]
ClearReminder(p) ==
    /\ req[p].pc = "clear_reminder"
    /\ reminder_sent' = reminder_sent \ {req[p].user}
    /\ req' = [req EXCEPT ![p].pc = "done"]
    /\ UNCHANGED <<now, storeVars, cacheVars, job, reminders>>

\* an insert that takes the first id and moves the stored rows up by one
AppendEventInFront(u, a, t) ==
    /\ Len(events) < MaxEvents
    /\ events' = <<[user_id |-> u, location |-> "global", action |-> a, ts |-> t,
                    by |-> 0, edge |-> FALSE]>> \o events
    /\ UNCHANGED <<now, tokens, people, cacheVars, botVars, req>>

(* Database.create_event called directly with any arguments, as the tests *)
(* and tools/reset_user_session.py call it.  The clock is read before the  *)
(* INSERT runs, so the row may carry any time up to the present one.       *)
AppendEvent(u, a, t) ==
    /\ Len(events) < MaxEvents
    /\ events' = Append(events,
                   [user_id |-> u, location |-> "global", action |-> a, ts |-> t,
                    by |-> 0, edge |-> FALSE])
    /\ UNCHANGED <<now, tokens, people, cacheVars, botVars, req>>

----------------------------------------------------------------------------
\* check_and_send_reminders not running
JobIdle == [pc |-> "idle", open_sessions |-> <<>>, session |-> 0]

----------------------------------------------------------------------------
Tick ==
    /\ now < MaxTime
    /\ now' = now + 1
    /\ UNCHANGED <<storeVars, cacheVars, botVars, req>>

\* the clock of the specifications of the event log
TickEvent ==
    /\ now < MaxEventTime
    /\ now' = now + 1
    /\ UNCHANGED <<storeVars, cacheVars, botVars, req>>

\* the state after init_users.py: one token created, no events
InitStore ==
    /\ now = 0
    /\ tokens = <<NewToken(0, 0)>>
    /\ events = <<>>
    /\ people = {}
    /\ tokenCache = [t \in TokenValues |-> "miss"]
    /\ reportCache = [daily |-> [d \in ReportDates |-> <<>>], weekly |-> <<>>]
    /\ limiter = [ip \in Ips |-> [count |-> 0, count_exp |-> <<>>, block_exp |-> <<>>]]
    /\ reminder_sent = {}
    /\ job = JobIdle
    /\ reminders = <<>>
    /\ req = [p \in Req |-> Idle]

\* REDIS_ENABLED defaults to true
Init == InitStore /\ backend = "redis"

\* Cache.__init__ falls back to the in-memory dictionary when Redis is
\* disabled or cannot be reached
InitCache == InitStore /\ backend \in {"redis", "memory"}

NextToken ==
    \/ \E p \in Req : \E t \in Presentable : StartConsume(p, t)
    \/ \E p \in Req : MarkUpdate(p)
    \/ \E p \in Req : Invalidate(p)
    \/ \E p \in Req : StartTerminal(p)
    \/ \E p \in Req : GetActive(p)
    \/ \E p \in Req : CreateToken(p)
    \/ Tick

SpecToken == Init /\ [][NextToken]_vars

NextCache ==
    \/ \E p \in Req : \E t \in Presentable : StartConsume(p, t)
    \/ \E p \in Req : MarkUpdate(p)
    \/ \E p \in Req : Invalidate(p)
    \/ \E p \in Req : \E t \in Presentable : StartValid(p, t)
    \/ \E p \in Req : CacheGet(p)
    \/ \E p \in Req : DbRead(p)
    \/ \E p \in Req : CacheSet(p)
    \/ \E t \in TokenValues : CacheExpire(t)
    \/ Tick

SpecCache == InitCache /\ [][NextCache]_vars

Next ==
    \/ \E u \in Users : RegisterPerson(u)
    \/ \E p \in Req : \E u \in Users, a \in {"in", "out"} : \E t \in Presentable :
          StartCallback(p, u, a, t)
    \/ \E p \in Req : MarkUpdate(p)
    \/ \E p \in Req : Invalidate(p)
    \/ \E p \in Req : \E u \in Users, k \in {"remote_start", "remote_end", "reminder"} :
          StartRemote(p, u, k)
    \/ \E p \in Req : GetPerson(p)
    \/ \E p \in Req : CheckLastEvent(p)
    \/ \E p \in Req : ReadClock(p)
    \/ \E p \in Req : CreateEvent(p)
    \/ \E p \in Req : ClearReminder(p)
    \/ \E p \in Req : CreateToken(p)
    \/ TickEvent

Spec == Init /\ [][Next]_vars

NextScan ==
    \/ \E u \in Users : RegisterPerson(u)
    \/ \E p \in Req : \E u \in Users, a \in {"in", "out"} : \E t \in Presentable :
          StartCallback(p, u, a, t)
    \/ \E p \in Req : MarkUpdate(p)
    \/ \E p \in Req : Invalidate(p)
    \/ \E p \in Req : GetPerson(p)
    \/ \E p \in Req : CheckLastEvent(p)
    \/ \E p \in Req : ReadClock(p)
    \/ \E p \in Req : CreateEvent(p)
    \/ \E p \in Req : StartTerminal(p)
    \/ \E p \in Req : GetActive(p)
    \/ \E p \in Req : CreateToken(p)
    \/ TickEvent

SpecScan == Init /\ [][NextScan]_vars

\* every event log of up to MaxEvents rows, for the queries on the log
NextLog ==
    \/ \E u \in Users : RegisterPerson(u)
    \/ \E u \in Users, a \in {"in", "out"} : \E t \in 0..now : AppendEvent(u, a, t)
    \/ TickEvent

SpecLog == Init /\ [][NextLog]_vars

----------------------------------------------------------------------------
(* Reports.  A report range is a pair of calendar dates, turned into the   *)
(* bounds "<start>T00:00:00" and "<end>T23:59:59" on ts.  A tick stands    *)
(* for a time of day before 23:59:59, so a row written at a tick is inside *)
(* the bounds exactly when its date is.  The rows written in the last      *)
(* second of a day (edge) occur in SpecDay only, where the range of        *)
(* get_daily_stats is compared as text.                                    *)

\* WHERE ts >= ?
InWindowFrom(ts, start, end) == start <= DateOf(ts)

\* WHERE ts >= ? AND ts <= ?
InWindow(ts, start, end) == start <= DateOf(ts) /\ DateOf(ts) <= end

(* Database.compare_periods, get_period_stats(start, end):                 *)
(*   SELECT COUNT(DISTINCT user_id), COUNT(CASE WHEN action = 'in' ...),   *)
(*          COUNT(CASE WHEN action = 'out' ...), COUNT(DISTINCT date(ts))  *)
(*   FROM events WHERE ts >= ? AND ts <= ?                                 *)
GetPeriodStats(start, end) ==
    LET rows == {i \in DOMAIN events : InWindow(events[i].ts, start, end)}
    IN  [unique_users |-> Cardinality({events[i].user_id : i \in rows}),
         checkins |-> Cardinality({i \in rows : events[i].action = "in"}),
         checkouts |-> Cardinality({i \in rows : events[i].action = "out"}),
         work_days |-> Cardinality({DateOf(events[i].ts) : i \in rows})]

\* "comparison": stats2 - stats1 for each metric
Comparison(stats1, stats2) ==
    [unique_users_diff |-> stats2.unique_users - stats1.unique_users,
     checkins_diff |-> stats2.checkins - stats1.checkins,
     checkouts_diff |-> stats2.checkouts - stats1.checkouts,
     work_days_diff |-> stats2.work_days - stats1.work_days]

\* compare_periods(start, end, start, end): period 2 is period 1
StartCompare(p, start, end) ==
    /\ CanStart(p)
    /\ start <= end
    /\ req' = [req EXCEPT ![p] =
                 [Idle EXCEPT !.kind = "compare", !.pc = "stats1",
                              !.period = <<start, end, start, end>>]]
    /\ UNCHANGED <<now, storeVars, cacheVars, botVars>>

\* stats1 = get_period_stats(period1_start, period1_end), on its own connection
ReadStats1(p) ==
    /\ req[p].pc = "stats1"
    /\ req' = [req EXCEPT ![p].stats = GetPeriodStats(req[p].period[1], req[p].period[2]),
                          ![p].pc = "stats2"]
    /\ UNCHANGED <<now, storeVars, cacheVars, botVars>>

\* stats2 = get_period_stats(period2_start, period2_end); return the comparison
ReadStats2(p) ==
    /\ req[p].pc = "stats2"
    /\ req' = [req EXCEPT ![p].diff =
                     Comparison(req[p].stats,
                                GetPeriodStats(req[p].period[3], req[p].period[4])),
                          ![p].pc = "done"]
    /\ UNCHANGED <<now, storeVars, cacheVars, botVars>>

\* compare_periods called while events are appended
NextCompare ==
    \/ \E u \in Users, a \in {"in", "out"} : AppendEvent(u, a, now)
    \/ \E p \in Req : \E start, end \in 0..DateOf(now) : StartCompare(p, start, end)
    \/ \E p \in Req : ReadStats1(p)
    \/ \E p \in Req : ReadStats2(p)
    \/ TickEvent

SpecCompare == Init /\ [][NextCompare]_vars

----------------------------------------------------------------------------
(* Interval pairing.  A pointer that may be None is a sequence: <<>> for   *)
(* None, <<t>> for the time t.  Durations are in ticks; 86400 seconds, one *)
(* day, are DayLen ticks.                                                  *)

\* the ways a query may list a set of rows under ORDER BY ts: rows with
\* equal ts come in any order
OrderByTs(rows) ==
    LET k == Cardinality(rows)
    IN  {l \in [1..k -> rows] :
            /\ \A a, b \in 1..k : a # b => l[a] # l[b]
            /\ \A a, b \in 1..k : a < b => events[l[a]].ts <= events[l[b]].ts}

(* Database.get_events_by_period(user_id, start, end):                     *)
(*   SELECT * FROM events WHERE user_id = ? AND ts >= ? AND ts <= ?        *)
(*   ORDER BY ts                                                           *)
GetEventsByPeriod(u, start, end) ==
    OrderByTs({i \in EventsOf(u) : InWindow(events[i].ts, start, end)})

\* the loop body with an in that leaves an open check-in as it is
PairStepKeepFirst(st, ev) ==
    IF ev.action = "in"
    THEN IF st.checkin_time = <<>> THEN [st EXCEPT !.checkin_time = <<ev.ts>>] ELSE st
    ELSE IF ev.action = "out" /\ st.checkin_time # <<>>
    THEN [checkin_time |-> <<>>,
          total_seconds |-> st.total_seconds + (ev.ts - st.checkin_time[1])]
    ELSE st

\* Database.get_work_time: the body of "for event in events"
PairStep(st, ev) ==
    IF ev.action = "in"
    THEN [st EXCEPT !.checkin_time = <<ev.ts>>]
    ELSE IF ev.action = "out" /\ st.checkin_time # <<>>
    THEN [checkin_time |-> <<>>,
          total_seconds |-> st.total_seconds + (ev.ts - st.checkin_time[1])]
    ELSE st

\* total_seconds after the loop over the listed rows
PairSeconds(l) ==
    LET F[n \in 0..Len(l)] ==
            IF n = 0 THEN [checkin_time |-> <<>>, total_seconds |-> 0]
            ELSE PairStep(F[n - 1], events[l[n]])
    IN  F[Len(l)].total_seconds

\* Database.get_work_time(user_id, date): the values the call may return
GetWorkTime(u, date) == {PairSeconds(l) : l \in GetEventsByPeriod(u, date, date)}

\* Database.get_employees_by_date: the loop body, for the rows of one user
EmployeeStep(emp, ev) ==
    IF ev.action = "in"
    THEN [emp EXCEPT !.open_start = <<ev.ts>>]
    ELSE IF ev.action = "out" /\ emp.open_start # <<>>
    THEN [intervals |-> Append(emp.intervals,
                               [start |-> emp.open_start[1], end |-> <<ev.ts>>]),
          open_start |-> <<>>]
    ELSE emp

\* the closing of the list that leaves an open session out
EmployeeFinishNoOpen(emp) == emp.intervals

\* if emp.get("_open_start"): intervals.append({"start": ..., "end": None})
EmployeeFinish(emp) ==
    IF emp.open_start # <<>>
    THEN Append(emp.intervals, [start |-> emp.open_start[1], end |-> <<>>])
    ELSE emp.intervals

\* the intervals of one employee, for the listed rows
EmployeeIntervals(l) ==
    LET F[n \in 0..Len(l)] ==
            IF n = 0 THEN [intervals |-> <<>>, open_start |-> <<>>]
            ELSE EmployeeStep(F[n - 1], events[l[n]])
    IN  EmployeeFinish(F[Len(l)])

\* Database.get_employees_by_date(date): the employees listed (JOIN people)
\* and the interval lists the call may return for one of them
EmployeesOn(date) ==
    {u \in people : \E i \in EventsOf(u) : InWindow(events[i].ts, date, date)}

\* msk_offset = timedelta(hours=3), in ticks
MskOffset == (3 * DayLen) \div 24

\* format_time_utc_to_msk: "%H:%M" of the time moved to MSK, the date dropped
FormatTimeUtcToMsk(t) == TimeOfDay(t + MskOffset)

\* formatted_intervals: start and end as "%H:%M", end None kept
FormatIntervals(intervals) ==
    [n \in 1..Len(intervals) |->
        [start |-> FormatTimeUtcToMsk(intervals[n].start),
         end |-> IF intervals[n].end = <<>> THEN <<>>
                 ELSE <<FormatTimeUtcToMsk(intervals[n].end[1])>>]]

GetEmployeesByDate(u, date) ==
    {FormatIntervals(EmployeeIntervals(l)) : l \in GetEventsByPeriod(u, date, date)}

\* the rows of a listing that fall on one day, in the order of the listing
DayRows(l, d) == SelectSeq(l, LAMBDA i : DateOf(events[i].ts) = d)

\* the days on which a listing has rows
DaysOf(l) == {DateOf(events[l[n]].ts) : n \in 1..Len(l)}

\* the sum of the values of a function over a set of its arguments
RECURSIVE SumOf(_, _)
SumOf(f, S) ==
    IF S = {} THEN 0
    ELSE LET x == CHOOSE y \in S : TRUE
         IN  f[x] + SumOf(f, S \ {x})

(* Database.get_pivot_report(start, end).  "employees": the people with a  *)
(* row in the range; "days": every day of the range.                       *)
PivotEmployeesAll(start, end) == people

PivotEmployees(start, end) ==
    {u \in people : \E i \in EventsOf(u) : InWindow(events[i].ts, start, end)}

PivotDays(start, end) == start..end

\* data[employee_id]: one entry for each key (uid, day) of user_day_events,
\* the seconds paired among the rows of that day
PivotData(l) == [d \in DaysOf(l) |-> PairSeconds(DayRows(l, d))]

\* totals[employee_id] += hours, for each key of the employee
PivotTotal(l) == SumOf(PivotData(l), DaysOf(l))

\* what the call may return for one employee
GetPivotReport(u, start, end) ==
    {[data |-> PivotData(l), total |-> PivotTotal(l)] :
        l \in GetEventsByPeriod(u, start, end)}

(* Database.get_top_workers: the loop body on daily_hours[(user, date)]    *)
TopStep(day, ev) ==
    IF ev.action = "in"
    THEN [day EXCEPT !.checkin_time = <<ev.ts>>]
    ELSE IF ev.action = "out" /\ day.checkin_time # <<>>
    THEN LET work_seconds == ev.ts - day.checkin_time[1]
         IN  [checkin_time |-> <<>>,
              total_seconds |-> IF 0 < work_seconds /\ work_seconds < DayLen
                                THEN day.total_seconds + work_seconds
                                ELSE day.total_seconds]
    ELSE day

\* daily_hours[(user, date)]['total_seconds'] after the loop
TopDaySeconds(l, d) ==
    LET rows == DayRows(l, d)
        F[n \in 0..Len(rows)] ==
            IF n = 0 THEN [checkin_time |-> <<>>, total_seconds |-> 0]
            ELSE TopStep(F[n - 1], events[rows[n]])
    IN  F[Len(rows)].total_seconds

\* WHERE e.ts >= thirty_days_ago ... ORDER BY p.tg_user_id, e.ts: the rows of
\* one user
TopWorkerRows(u) ==
    OrderByTs({i \in EventsOf(u) : events[i].ts >= now - 30 * DayLen})

\* user_totals[user_id]: the days with total_seconds > 0 and their sum
TopWorkerTotals(l) ==
    LET days == {d \in DaysOf(l) : TopDaySeconds(l, d) > 0}
    IN  [work_days |-> Cardinality(days),
         total_seconds |-> SumOf([d \in days |-> TopDaySeconds(l, d)], days)]

\* one way the query may list the rows of every person (ORDER BY
\* p.tg_user_id, e.ts: the people in ascending order, each one's rows by ts)
TopWorkerListings ==
    LET rows == [u \in Users |-> TopWorkerRows(u)]
    IN  {f \in [people -> UNION {rows[u] : u \in people}] :
            \A u \in people : f[u] \in rows[u]}

\* user_totals in its insertion order: daily_hours is filled in the order of
\* the rows, so the users with a day above 0 come in ascending tg_user_id
UserTotalsOrder(f) ==
    LET F[n \in 0..NumUsers] ==
            IF n = 0 THEN <<>>
            ELSE IF n \in people /\ TopWorkerTotals(f[n]).total_seconds > 0
            THEN Append(F[n - 1], n)
            ELSE F[n - 1]
    IN  F[NumUsers]

\* sorted(..., key=total_hours, reverse=True) is stable: a user goes behind
\* the users placed before it whose total_hours is as high or higher
InsertStable(sorted, x, f) ==
    LET key(u) == TopWorkerTotals(f[u]).total_seconds
        k == Cardinality({n \in 1..Len(sorted) : key(sorted[n]) >= key(x)})
    IN  SubSeq(sorted, 1, k) \o <<x>> \o SubSeq(sorted, k + 1, Len(sorted))

SortedUsers(f) ==
    LET order == UserTotalsOrder(f)
        S[n \in 0..Len(order)] ==
            IF n = 0 THEN <<>> ELSE InsertStable(S[n - 1], order[n], f)
    IN  S[Len(order)]

\* Database.get_top_workers(limit): the users of the entries returned, in
\* the order of the list
GetTopWorkers(f, limit) == SubSeq(SortedUsers(f), 1, Min(limit, Len(SortedUsers(f))))

(* Database.get_overtime_report(start, end, standard_hours_per_day):       *)
(*   SELECT p.fio, date(e.ts),                                             *)
(*          (MAX(CASE WHEN e2.action = 'out' THEN e2.ts END)               *)
(*           - MIN(CASE WHEN e2.action = 'in' THEN e2.ts END)) / 3600.0    *)
(*   FROM events e JOIN people p ... JOIN events e2                        *)
(*        ON e2.user_id = e.user_id AND date(e2.ts) = date(e.ts)           *)
(*   WHERE e.ts >= ? AND e.ts <= ? AND e.action = 'in'                     *)
(*   GROUP BY p.fio, date(e.ts) HAVING work_hours > ?                      *)
(* Each person has a fio of their own.                                     *)

\* the times of the user's rows of one action on one date
TimesOn(u, d, action) ==
    {events[i].ts : i \in {j \in EventsOf(u) : /\ DateOf(events[j].ts) = d
                                               /\ events[j].action = action}}

Max(S) == CHOOSE x \in S : \A y \in S : y <= x

Least(S) == CHOOSE x \in S : \A y \in S : x <= y

\* the groups of the query: a person and a date of the range with an in
OvertimeGroups(start, end) ==
    {g \in people \X (start..end) : TimesOn(g[1], g[2], "in") # {}}

\* work_hours of a group: NULL (here <<>>) when the date has no out
OvertimeWorkHours(u, d) ==
    IF TimesOn(u, d, "out") = {} THEN <<>>
    ELSE <<Max(TimesOn(u, d, "out")) - Least(TimesOn(u, d, "in"))>>

GetOvertimeReport(start, end, standard) ==
    {[user |-> g[1], work_date |-> g[2],
      work_hours |-> OvertimeWorkHours(g[1], g[2])[1],
      overtime |-> OvertimeWorkHours(g[1], g[2])[1] - standard] :
        g \in {h \in OvertimeGroups(start, end) :
                  /\ OvertimeWorkHours(h[1], h[2]) # <<>>
                  /\ OvertimeWorkHours(h[1], h[2])[1] > standard}}

----------------------------------------------------------------------------
(* The cached reports.  An entry of the cache is <<>> (no entry) or a      *)
(* one-element sequence holding obj (the object stored), at (the tick at   *)
(* which it was stored) and by (the call that stored it: the operation and *)
(* its arguments, a history field).                                        *)

\* CACHE_TTL_ANALYTICS, 600 seconds, in whole ticks: an entry read at a
\* later tick than it was stored at is older than its TTL
CacheTtlAnalytics == 1

\* what the backend holds under a key at the present time: Redis drops an
\* entry stored with ex=ttl when the TTL has run out, the in-memory
\* dictionary keeps every entry ("no TTL support")
Held(entry) ==
    IF backend = "redis" /\ entry # <<>> /\ now >= entry[1].at + CacheTtlAnalytics
    THEN <<>>
    ELSE entry

NewEntry(obj, r) == <<[obj |-> obj, at |-> now, by |-> <<r.kind, r.period>>]>>

\* a request returns with an exception or with a value served from the cache
Raise(r) == [r EXCEPT !.ret = "raised", !.pc = "done"]
ServeCached(r, entry, value) ==
    [r EXCEPT !.result = <<value>>, !.hit = TRUE, !.age = now - entry[1].at,
              !.from = entry[1].by, !.pc = "done"]

(* The texts that the range of get_daily_stats compares.  A text is the   *)
(* sequence of its date, its separator, its time of day to the second and  *)
(* 1 or 0 for what follows the seconds: something or nothing.  The times   *)
(* of day are the ticks of a day and, after them, 23:59:59.                *)
LastSecond == DayLen

\* the ts that create_event stores: datetime.now(timezone.utc).isoformat(),
\* "YYYY-MM-DDTHH:MM:SS.ffffff+00:00" ("...SS+00:00" at a whole second)
TsText(ev) ==
    <<DateOf(ev.ts), SepT, IF ev.edge THEN LastSecond ELSE TimeOfDay(ev.ts), 1>>

\* date_start = f"{date}T00:00:00", date_end = f"{date}T23:59:59"
DateStart(date) == <<date, SepT, 0, 0>>
DateEnd(date) == <<date, SepT, LastSecond, 0>>

\* a > b for two TEXT values: the first difference decides, and a text is
\* greater than the texts it starts with
TextAfter(a, b) ==
    \E i \in 1..Len(a) : a[i] > b[i] /\ \A j \in 1..(i - 1) : a[j] = b[j]

\* WHERE ts >= date_start AND ts <= date_end
DailyRows(date) ==
    {i \in DOMAIN events :
        /\ ~TextAfter(DateStart(date), TsText(events[i]))
        /\ ~TextAfter(TsText(events[i]), DateEnd(date))}

(* Database.get_daily_stats(date):                                         *)
(*   SELECT COUNT(CASE WHEN action = 'in' ...), COUNT(CASE WHEN action =   *)
(*          'out' ...), COUNT(DISTINCT user_id)                            *)
(*   FROM events WHERE ts >= ? AND ts <= ?                                 *)
DailyStatsQuery(date) ==
    LET rows == DailyRows(date)
    IN  [checkins |-> Cardinality({i \in rows : events[i].action = "in"}),
         checkouts |-> Cardinality({i \in rows : events[i].action = "out"}),
         unique_users |-> Cardinality({events[i].user_id : i \in rows})]

StartDaily(p, date) ==
    /\ CanStart(p)
    /\ req' = [req EXCEPT ![p] =
                 [Idle EXCEPT !.kind = "daily", !.pc = "daily_get", !.period = <<date>>]]
    /\ UNCHANGED <<now, storeVars, cacheVars, botVars>>

\* cached_data = get_cached_analytics_daily(date); if it is not None: return it
DailyCacheGet(p) ==
    /\ req[p].pc = "daily_get"
    /\ LET got == Get(Held(reportCache.daily[req[p].period[1]]), <<>>)
       IN  req' = [req EXCEPT ![p] =
                     IF got.raised THEN Raise(req[p])
                     ELSE IF got.value # <<>>
                     THEN ServeCached(req[p], got.value, got.value[1].obj)
                     ELSE [req[p] EXCEPT !.pc = "daily_query"]]
    /\ UNCHANGED <<now, storeVars, cacheVars, botVars>>

\* cursor.execute(...); data = dict(cursor.fetchone())
DailyQuery(p) ==
    /\ req[p].pc = "daily_query"
    /\ req' = [req EXCEPT ![p].stats = <<DailyStatsQuery(req[p].period[1])>>,
                          ![p].pc = "daily_set"]
    /\ UNCHANGED <<now, storeVars, cacheVars, botVars>>

\* set_cached_analytics_daily(date, data); return data
DailyCacheSet(p) ==
    /\ req[p].pc = "daily_set"
    /\ LET d == req[p].period[1]
       IN  reportCache' = [reportCache EXCEPT !.daily[d] =
                             Set(reportCache.daily[d],
                                 NewEntry(req[p].stats[1], req[p])).value]
    /\ req' = [req EXCEPT ![p].result = req[p].stats, ![p].pc = "done"]
    /\ UNCHANGED <<now, storeVars, tokenCache, backend, botVars, limiter>>

(* Database.get_weekly_stats(start_date, end_date):                        *)
(*   SELECT DATE(ts), COUNT(...), COUNT(...), COUNT(DISTINCT user_id)      *)
(*   FROM events WHERE ts >= ? AND ts <= ? GROUP BY DATE(ts)               *)
(* A row for each date that has events, as a function of the date.         *)
WeeklyStatsQuery(start, end) ==
    LET rows == {i \in DOMAIN events : InWindow(events[i].ts, start, end)}
    IN  [d \in {DateOf(events[i].ts) : i \in rows} |->
            LET day == {i \in rows : DateOf(events[i].ts) = d}
            IN  [checkins |-> Cardinality({i \in day : events[i].action = "in"}),
                 checkouts |-> Cardinality({i \in day : events[i].action = "out"}),
                 unique_users |-> Cardinality({events[i].user_id : i \in day})]]

\* cache_key = f"{start_date}_{end_date}"
WeeklyKey(start, end) == <<start, end>>

\* cached_data.get("key"): None (here <<>>) for a dictionary without "key"
GetKey(obj) == IF "key" \in DOMAIN obj THEN obj.key ELSE <<>>

StartWeekly(p, start, end) ==
    /\ CanStart(p)
    /\ start <= end
    /\ req' = [req EXCEPT ![p] =
                 [Idle EXCEPT !.kind = "weekly", !.pc = "weekly_get",
                              !.period = <<start, end>>]]
    /\ UNCHANGED <<now, storeVars, cacheVars, botVars>>

\* cached_data = get_cached_analytics_weekly();
\* if cached_data is not None and cached_data.get("key") == cache_key:
\*     return cached_data["data"]
WeeklyCacheGet(p) ==
    /\ req[p].pc = "weekly_get"
    /\ LET got == Get(Held(reportCache.weekly), <<>>)
           cache_key == WeeklyKey(req[p].period[1], req[p].period[2])
       IN  req' = [req EXCEPT ![p] =
                     IF got.raised THEN Raise(req[p])
                     ELSE IF got.value # <<>> /\ GetKey(got.value[1].obj) = cache_key
                     THEN ServeCached(req[p], got.value, got.value[1].obj.data)
                     ELSE [req[p] EXCEPT !.pc = "weekly_query"]]
    /\ UNCHANGED <<now, storeVars, cacheVars, botVars>>

WeeklyQuery(p) ==
    /\ req[p].pc = "weekly_query"
    /\ req' = [req EXCEPT ![p].stats =
                     <<WeeklyStatsQuery(req[p].period[1], req[p].period[2])>>,
                          ![p].pc = "weekly_set"]
    /\ UNCHANGED <<now, storeVars, cacheVars, botVars>>

\* set_cached_analytics_weekly({"key": cache_key, "data": data}); return data
WeeklyCacheSet(p) ==
    /\ req[p].pc = "weekly_set"
    /\ reportCache' = [reportCache EXCEPT !.weekly =
                          Set(reportCache.weekly,
                              NewEntry([key |-> WeeklyKey(req[p].period[1],
                                                          req[p].period[2]),
                                        data |-> req[p].stats[1]], req[p])).value]
    /\ req' = [req EXCEPT ![p].result = req[p].stats, ![p].pc = "done"]
    /\ UNCHANGED <<now, storeVars, tokenCache, backend, botVars, limiter>>

(* Database.get_analytics_summary.  Its four queries are four statements;  *)
(* stats collects what they return.                                        *)

\* SELECT COUNT(DISTINCT user_id) FROM events
\*   WHERE ts >= ? AND ts <= ? AND action = 'in', for today
TodayVisits ==
    Cardinality({events[i].user_id :
                    i \in {j \in DOMAIN events :
                              /\ InWindow(events[j].ts, DateOf(now), DateOf(now))
                              /\ events[j].action = "in"}})

(* SELECT AVG(work_hours) FROM (SELECT user_id, date(ts),                  *)
(*     MAX(out ts) - MIN(in ts) AS work_hours FROM events WHERE ts >= ?    *)
(*     GROUP BY user_id, date(ts) HAVING work_hours > 0 AND work_hours < 24)*)
(* The average as the pair of the sum and the number of its terms.         *)
AvgWorkTime ==
    LET since == now - 30 * DayLen
        times(u, d, a) == {events[i].ts : i \in {j \in EventsOf(u) :
                               /\ events[j].ts >= since
                               /\ DateOf(events[j].ts) = d
                               /\ events[j].action = a}}
        groups == {g \in Users \X (0..DateOf(now)) :
                      /\ times(g[1], g[2], "in") # {} /\ times(g[1], g[2], "out") # {}
                      /\ LET h == Max(times(g[1], g[2], "out"))
                                     - Least(times(g[1], g[2], "in"))
                         IN  0 < h /\ h < DayLen}
        hours == [g \in groups |-> Max(times(g[1], g[2], "out"))
                                      - Least(times(g[1], g[2], "in"))]
    IN  <<SumOf(hours, groups), Cardinality(groups)>>

StartSummary(p) ==
    /\ CanStart(p)
    /\ req' = [req EXCEPT ![p] = [Idle EXCEPT !.kind = "summary", !.pc = "summary_get"]]
    /\ UNCHANGED <<now, storeVars, cacheVars, botVars>>

\* cached_data = get_cached_analytics_weekly(); if cached_data: return cached_data
SummaryCacheGet(p) ==
    /\ req[p].pc = "summary_get"
    /\ LET got == Get(Held(reportCache.weekly), <<>>)
       IN  req' = [req EXCEPT ![p] =
                     IF got.raised THEN Raise(req[p])
                     ELSE IF got.value # <<>>
                     THEN ServeCached(req[p], got.value, got.value[1].obj)
                     ELSE [req[p] EXCEPT !.pc = "summary_people"]]
    /\ UNCHANGED <<now, storeVars, cacheVars, botVars>>

\* SELECT COUNT(*) FROM people
SummaryPeople(p) ==
    /\ req[p].pc = "summary_people"
    /\ req' = [req EXCEPT ![p].stats = <<Cardinality(people)>>,
                          ![p].pc = "summary_present"]
    /\ UNCHANGED <<now, storeVars, cacheVars, botVars>>

\* present_users = len(self.get_currently_present())
SummaryPresent(p) ==
    /\ req[p].pc = "summary_present"
    /\ req' = [req EXCEPT ![p].stats = Append(req[p].stats,
                                              Cardinality(GetCurrentlyPresent)),
                          ![p].pc = "summary_visits"]
    /\ UNCHANGED <<now, storeVars, cacheVars, botVars>>

SummaryVisits(p) ==
    /\ req[p].pc = "summary_visits"
    /\ req' = [req EXCEPT ![p].stats = Append(req[p].stats, TodayVisits),
                          ![p].pc = "summary_avg"]
    /\ UNCHANGED <<now, storeVars, cacheVars, botVars>>

SummaryAvg(p) ==
    /\ req[p].pc = "summary_avg"
    /\ req' = [req EXCEPT ![p].stats = Append(req[p].stats, AvgWorkTime),
                          ![p].pc = "summary_set"]
    /\ UNCHANGED <<now, storeVars, cacheVars, botVars>>

SummaryResult(stats) ==
    [total_users |-> stats[1], currently_present |-> stats[2],
     today_visits |-> stats[3], avg_work_time |-> stats[4]]

\* set_cached_analytics_weekly(result); return result
SummaryCacheSet(p) ==
    /\ req[p].pc = "summary_set"
    /\ reportCache' = [reportCache EXCEPT !.weekly =
                          Set(reportCache.weekly,
                              NewEntry(SummaryResult(req[p].stats), req[p])).value]
    /\ req' = [req EXCEPT ![p].result = <<SummaryResult(req[p].stats)>>,
                          ![p].pc = "done"]
    /\ UNCHANGED <<now, storeVars, tokenCache, backend, botVars, limiter>>

----------------------------------------------------------------------------
\* the clock of the specification of the reports
TickAgg ==
    /\ now < MaxAggTime
    /\ now' = now + 1
    /\ UNCHANGED <<storeVars, cacheVars, botVars, req>>

\* the dates of the clock of SpecAgg, for the ranges of the reports
AggDates == 0..DateOf(MaxAggTime)

\* every event log of up to MaxEvents rows written in the order of time,
\* for the reports
NextAgg ==
    \/ \E u \in Users : RegisterPerson(u)
    \/ \E u \in Users, a \in {"in", "out"} : AppendEvent(u, a, now)
    \/ TickAgg

SpecAgg == Init /\ [][NextAgg]_vars

(* Database.create_event for a registered user, with the action that the  *)
(* user's last event allows: the logs the handlers write when they run one *)
(* after the other.                                                        *)
AppendNextEvent(u) ==
    /\ u \in people
    /\ Len(events) < MaxTopEvents
    /\ Cardinality(EventsOf(u)) < MaxUserEvents
    /\ events' = Append(events,
                   [user_id |-> u, location |-> "global",
                    action |-> IF LastAction(u) = "in" THEN "out" ELSE "in",
                    ts |-> now, by |-> 0, edge |-> FALSE])
    /\ UNCHANGED <<now, tokens, people, cacheVars, botVars, req>>

\* the well-formed event logs of up to MaxTopEvents rows, for the ranking
NextTop ==
    \/ \E u \in Users : RegisterPerson(u)
    \/ \E u \in Users : AppendNextEvent(u)
    \/ TickAgg

SpecTop == Init /\ [][NextTop]_vars

----------------------------------------------------------------------------
(* utils/rate_limit.py, rate_limit(request, max_requests, window_seconds,  *)
(* block_seconds, key_prefix), for one key prefix.  Each command sent to   *)
(* Redis is one step.  A key with a TTL is gone when the TTL has run out:  *)
(* count_exp and block_exp hold the time at which the key goes, <<>> for a *)
(* key without TTL (count) or for no key (block).  In the specification of *)
(* the limiter a tick of the clock is a part of a window.  A request keeps *)
(* in stats the count it received and in ts the time it was counted at;    *)
(* ret is "none" for a call that returned None and "429" for one that      *)
(* raised HTTPException(429).                                              *)

MaxRequests == 1   \* max_requests
WindowTicks == 2   \* window_seconds
BlockTicks == 3    \* block_seconds

\* the key is there at the present time
Live(exp) == exp = <<>> \/ now < exp[1]

\* cache.redis_client.exists(key_block)
BlockExists(ip) == limiter[ip].block_exp # <<>> /\ Live(limiter[ip].block_exp)

\* the value of the counter key, 0 when there is no key
Counter(ip) == IF Live(limiter[ip].count_exp) THEN limiter[ip].count ELSE 0

StartLimit(p, ip) ==
    /\ CanStart(p)
    /\ req' = [req EXCEPT ![p] =
                 [Idle EXCEPT !.kind = "limit", !.pc = "rl_exists", !.user = ip]]
    /\ UNCHANGED <<now, storeVars, cacheVars, botVars>>

\* if cache.redis_client: if cache.redis_client.exists(key_block): raise 429.
\* Without a client the call returns None; an error of Redis is caught and
\* the call returns None ("fail-open").
LimitExists(p) ==
    /\ req[p].pc = "rl_exists"
    /\ req' = [req EXCEPT ![p] =
                 IF backend # "redis"
                 THEN [req[p] EXCEPT !.ret = "none", !.ts = now, !.pc = "done"]
                 ELSE IF BlockExists(req[p].user)
                 THEN [req[p] EXCEPT !.ret = "429", !.pc = "done"]
                 ELSE [req[p] EXCEPT !.pc = "rl_incr"]]
    /\ UNCHANGED <<now, storeVars, cacheVars, botVars>>

\* what follows the counting: over the limit the block is set, else the
\* call returns None
AfterCount(r, count) ==
    IF count > MaxRequests THEN [r EXCEPT !.pc = "rl_block"]
    ELSE [r EXCEPT !.ret = "none", !.pc = "done"]

\* count = cache.redis_client.incr(key_counter)
LimitIncr(p) ==
    /\ req[p].pc = "rl_incr"
    /\ LET ip == req[p].user
           count == Counter(ip) + 1
           r == [req[p] EXCEPT !.stats = <<count>>, !.ts = now]
       IN  /\ limiter' = [limiter EXCEPT
                            ![ip].count = count,
                            ![ip].count_exp = IF Counter(ip) = 0 THEN <<>>
                                              ELSE limiter[ip].count_exp]
           /\ req' = [req EXCEPT ![p] = IF count = 1 THEN [r EXCEPT !.pc = "rl_expire"]
                                        ELSE AfterCount(r, count)]
    /\ UNCHANGED <<now, storeVars, tokenCache, backend, botVars, reportCache>>

\* if count == 1: cache.redis_client.expire(key_counter, window_seconds)
LimitExpire(p) ==
    /\ req[p].pc = "rl_expire"
    /\ LET ip == req[p].user
       IN  limiter' = IF Counter(ip) = 0 THEN limiter
                      ELSE [limiter EXCEPT ![ip].count_exp = <<now + WindowTicks>>]
    /\ req' = [req EXCEPT ![p] = AfterCount(req[p], req[p].stats[1])]
    /\ UNCHANGED <<now, storeVars, tokenCache, backend, botVars, reportCache>>

\* cache.redis_client.set(key_block, 1, ex=block_seconds); raise 429
LimitBlock(p) ==
    /\ req[p].pc = "rl_block"
    /\ limiter' = [limiter EXCEPT ![req[p].user].block_exp = <<now + BlockTicks>>]
    /\ req' = [req EXCEPT ![p].ret = "429", ![p].pc = "done"]
    /\ UNCHANGED <<now, storeVars, tokenCache, backend, botVars, reportCache>>

\* requests of the client addresses on either backend, as time passes
NextLimit ==
    \/ \E p \in Req : \E ip \in Ips : StartLimit(p, ip)
    \/ \E p \in Req : LimitExists(p)
    \/ \E p \in Req : LimitIncr(p)
    \/ \E p \in Req : LimitExpire(p)
    \/ \E p \in Req : LimitBlock(p)
    \/ Tick

SpecLimit == InitCache /\ [][NextLimit]_vars

\* Redis was reached when the Cache was built and fails from then on
InitDown == InitStore /\ backend = "down"

\* the token calls and a cached report, with events appended meanwhile
NextDown ==
    \/ \E p \in Req : \E t \in Presentable : StartConsume(p, t)
    \/ \E p \in Req : MarkUpdate(p)
    \/ \E p \in Req : Invalidate(p)
    \/ \E p \in Req : \E t \in Presentable : StartValid(p, t)
    \/ \E p \in Req : CacheGet(p)
    \/ \E p \in Req : DbRead(p)
    \/ \E p \in Req : CacheSet(p)
    \/ \E p \in Req : \E d \in 0..DateOf(now) : StartDaily(p, d)
    \/ \E p \in Req : DailyCacheGet(p)
    \/ \E p \in Req : DailyQuery(p)
    \/ \E p \in Req : DailyCacheSet(p)
    \/ \E u \in Users, a \in {"in", "out"} : AppendEvent(u, a, now)
    \/ TickEvent

SpecDown == InitDown /\ [][NextDown]_vars

\* get_weekly_stats and get_analytics_summary called while check-ins are
\* appended, on either backend
NextWeekly ==
    \/ \E u \in Users : AppendEvent(u, "in", now)
    \/ \E p \in Req : \E start, end \in 0..DateOf(now) : StartWeekly(p, start, end)
    \/ \E p \in Req : WeeklyCacheGet(p)
    \/ \E p \in Req : WeeklyQuery(p)
    \/ \E p \in Req : WeeklyCacheSet(p)
    \/ \E p \in Req : StartSummary(p)
    \/ \E p \in Req : SummaryCacheGet(p)
    \/ \E p \in Req : SummaryPeople(p)
    \/ \E p \in Req : SummaryPresent(p)
    \/ \E p \in Req : SummaryVisits(p)
    \/ \E p \in Req : SummaryAvg(p)
    \/ \E p \in Req : SummaryCacheSet(p)
    \/ TickEvent

SpecWeekly == InitCache /\ [][NextWeekly]_vars

(* Database.create_event called in the last second of a day: the day of   *)
(* the present tick, when that is the last tick of its day.                *)
AppendLastSecond(u, a) ==
    /\ Len(events) < MaxEvents
    /\ TimeOfDay(now) = DayLen - 1
    /\ events' = Append(events,
                   [user_id |-> u, location |-> "global", action |-> a, ts |-> now,
                    by |-> 0, edge |-> TRUE])
    /\ UNCHANGED <<now, tokens, people, cacheVars, botVars, req>>

\* the event logs written at any time of the day, for the day ranges
NextDay ==
    \/ \E u \in Users, a \in {"in", "out"} : AppendEvent(u, a, now)
    \/ \E u \in Users, a \in {"in", "out"} : AppendLastSecond(u, a)
    \/ TickAgg

SpecDay == Init /\ [][NextDay]_vars

\* get_daily_stats called while events are appended and time passes, on
\* either backend
NextDaily ==
    \/ \E u \in Users, a \in {"in", "out"} : AppendEvent(u, a, now)
    \/ \E p \in Req : \E d \in 0..DateOf(now) : StartDaily(p, d)
    \/ \E p \in Req : DailyCacheGet(p)
    \/ \E p \in Req : DailyQuery(p)
    \/ \E p \in Req : DailyCacheSet(p)
    \/ TickEvent

SpecDaily == InitCache /\ [][NextDaily]_vars

----------------------------------------------------------------------------
(* The reminder jobs of the bot (APScheduler interval jobs on the bot's    *)
(* event loop).  A job runs without interruption between two awaits; the   *)
(* database calls are synchronous.                                         *)

\* get_open_sessions_older_than(8.0): 8 of the 24 hours of a day
ReminderAge == (8 * DayLen) \div 24

\* the dates utils.production_calendar.is_working_day answers False for
Holidays == {0}

\* today = datetime.now(TIMEZONE).date(); is_working_day(today)
IsWorkingDay(t) == DateOf(t + MskOffset) \notin Holidays

\* Database.get_open_sessions_older_than: the last row of each user (by id)
\* if it is an 'in' of a registered user and hours_open >= hours
OpenSessionsOlderThan(hours) ==
    {i \in MaxIdByUser : /\ events[i].user_id \in people
                         /\ events[i].action = "in"
                         /\ now - events[i].ts >= hours}

\* "for session in open_sessions", from the top of a turn to the next await:
\* the turns that continue (a reminder was sent already, or today is not a
\* working day) and then either the end of the loop or a message that leaves
RECURSIVE RunLoop(_, _)
RunLoop(open_sessions, sent) ==
    IF open_sessions = <<>> THEN JobIdle
    ELSE LET session == Head(open_sessions)
         IN  IF events[session].user_id \in sent \/ ~IsWorkingDay(now)
             THEN RunLoop(Tail(open_sessions), sent)
             ELSE [pc |-> "sending", open_sessions |-> Tail(open_sessions),
                   session |-> session]

\* the job starts: open_sessions = self.db.get_open_sessions_older_than(8.0)
\* (ORDER BY e.ts ASC, rows of one ts in any order), and the loop up to its
\* first await
StartReminders ==
    /\ job.pc = "idle"
    /\ \E l \in OrderByTs(OpenSessionsOlderThan(ReminderAge)) :
          job' = RunLoop(l, reminder_sent)
    /\ UNCHANGED <<now, storeVars, cacheVars, reminder_sent, reminders, req>>

\* the message reaches the user's chat while the job awaits send_message.
\* session: the row the reminder is about; last: the user's latest event
\* when the message arrives (history)
Deliver ==
    /\ job.pc = "sending"
    /\ LET user_id == events[job.session].user_id
       IN  reminders' = Append(reminders, [user |-> user_id, session |-> job.session,
                                           last |-> MaxId(user_id)])
    /\ job' = [job EXCEPT !.pc = "sent"]
    /\ UNCHANGED <<now, storeVars, cacheVars, reminder_sent, req>>

\* send_message returned: self.reminder_sent[user_id] = message.message_id,
\* and the loop goes on
TrackReminder ==
    /\ job.pc = "sent"
    /\ reminder_sent' = reminder_sent \cup {events[job.session].user_id}
    /\ job' = RunLoop(job.open_sessions, reminder_sent')
    /\ UNCHANGED <<now, storeVars, cacheVars, reminders, req>>

\* send_message raised: the except branch, which removes the user from the
\* tracking when the error text says "blocked" or "chat not found", and the
\* loop goes on
SendFails ==
    /\ job.pc = "sending"
    /\ \E blocked \in BOOLEAN :
          reminder_sent' = IF blocked
                           THEN reminder_sent \ {events[job.session].user_id}
                           ELSE reminder_sent
    /\ job' = RunLoop(job.open_sessions, reminder_sent')
    /\ UNCHANGED <<now, storeVars, cacheVars, reminders, req>>

\* cleanup_old_reminders: no await between the read and the deletions
CleanupOldReminders ==
    /\ LET open_user_ids == {events[i].user_id : i \in GetCurrentlyPresent}
       IN  reminder_sent' = reminder_sent \cap open_user_ids
    /\ UNCHANGED <<now, storeVars, cacheVars, job, reminders, req>>

\* the reminder button exists only in a reminder message
HasReminder(u) == \E n \in DOMAIN reminders : reminders[n].user = u

\* the clock of the specification of the reminders.  A tick is eight hours:
\* no call to Telegram is awaited that long (the HTTP timeouts of
\* ApplicationBuilder are a minute or less)
TickRemind ==
    /\ now < MaxRemindTime
    /\ job.pc \notin {"sending", "sent"}
    /\ \A p \in Req : req[p].pc # "clear_reminder"
    /\ now' = now + 1
    /\ UNCHANGED <<storeVars, cacheVars, botVars, req>>

NextRemind ==
    \/ \E u \in Users : RegisterPerson(u)
    \/ \E p \in Req : \E u \in Users, k \in {"remote_start", "remote_end"} :
          StartRemote(p, u, k)
    \/ \E p \in Req : \E u \in Users : HasReminder(u) /\ StartRemote(p, u, "reminder")
    \/ \E p \in Req : GetPerson(p)
    \/ \E p \in Req : CheckLastEvent(p)
    \/ \E p \in Req : ReadClock(p)
    \/ \E p \in Req : CreateEvent(p)
    \/ \E p \in Req : ClearReminder(p)
    \/ StartReminders
    \/ Deliver
    \/ TrackReminder
    \/ SendFails
    \/ CleanupOldReminders
    \/ TickRemind

\* the scheduler runs both jobs again and again, the event loop resumes a
\* job that awaits, and a message sent again and again is delivered
FairRemind ==
    /\ WF_vars(StartReminders)
    /\ SF_vars(Deliver)
    /\ WF_vars(TrackReminder)
    /\ WF_vars(CleanupOldReminders)

SpecRemind == Init /\ [][NextRemind]_vars /\ FairRemind

----------------------------------------------------------------------------
(* Properties of the token protocol *)

\* the calls of mark_token_used_if_valid on token t that have run their UPDATE
ConsumeCalls(t) ==
    {p \in Req : req[p].kind \in {"consume", "callback"} /\ req[p].token = t
                 /\ req[p].ret # "pending"}

\* those that returned true
Winners(t) == {p \in ConsumeCalls(t) : req[p].ret = "true"}

(* C1: for every token value, across any interleaving of concurrent        *)
(* mark_token_used_if_valid calls, at most one call returns true and the   *)
(* used flag is set exactly when there is such a call (so it goes from 0   *)
(* to 1 at most once); a call whose UPDATE runs while the token is fresh   *)
(* returns true, so of N >= 1 calls on a fresh token exactly one returns   *)
(* true and the others return false.                                       *)
C1_ConsumeExactlyOnce ==
    \A t \in TokenValues :
        /\ Cardinality(Winners(t)) <= 1
        /\ (t \in DOMAIN tokens /\ tokens[t].used = 1) <=> Winners(t) # {}
        /\ \A p \in ConsumeCalls(t) : req[p].seen = "true" => req[p].ret = "true"
        /\ (\E p \in ConsumeCalls(t) : req[p].seen = "true")
              => Cardinality(Winners(t)) = 1

\* three calls on one token have returned, one of them true
C1_Witness ==
    \E t \in TokenValues :
        /\ Cardinality(ConsumeCalls(t)) >= 3
        /\ Cardinality(Winners(t)) = 1
        /\ \A p \in ConsumeCalls(t) : req[p].pc = "done"

(* C5: mark_token_used_if_valid returns false whenever it is called at a   *)
(* time later than the token's stored expires_at, whether or not that time *)
(* falls on the calendar date of expires_at.                               *)
C5_ExpiredNeverConsumed ==
    \A p \in Req :
        (req[p].kind = "consume" /\ req[p].expired) => req[p].ret # "true"

(* C6: is_token_valid never reports a token as valid once the token's     *)
(* expires_at has passed: a call made after expires_at does not return     *)
(* true.                                                                   *)
C6_ValidNeverAfterExpiry ==
    \A p \in Req :
        (req[p].kind = "valid" /\ req[p].expired) => req[p].ret # "true"

----------------------------------------------------------------------------
(* Properties of the token-gated path and of the event log *)

\* the events appended by handle_callback requests that presented token t
EventsVia(t) ==
    {i \in DOMAIN events :
        req[events[i].by].kind = "callback" /\ req[events[i].by].token = t}

(* C2: in handle_callback an event is appended only after the request's    *)
(* own mark_token_used_if_valid call returned true; one token authorizes   *)
(* at most one appended event, whichever users present it and however the *)
(* requests interleave; and the replacement token is created only after    *)
(* the request's event was appended.                                       *)
C2_OneEventPerToken ==
    /\ \A i \in DOMAIN events :
          req[events[i].by].kind = "callback" => req[events[i].by].ret = "true"
    /\ \A t \in TokenValues : Cardinality(EventsVia(t)) <= 1
    /\ \A k \in DOMAIN tokens :
          (tokens[k].by # 0 /\ req[tokens[k].by].kind = "callback")
             => \E i \in DOMAIN events : events[i].by = tokens[k].by

\* two users pressed a button of the same token; one event and one
\* replacement token came of it
C2_Witness ==
    \E p, q \in Req :
        /\ req[p].kind = "callback" /\ req[q].kind = "callback"
        /\ req[p].token = req[q].token /\ req[p].user # req[q].user
        /\ req[p].pc = "done" /\ req[p].outcome = "accepted"
        /\ req[q].pc = "done" /\ req[q].ret = "false"
        /\ \E k \in DOMAIN tokens : tokens[k].by = p

Unused == {t \in DOMAIN tokens : tokens[t].used = 0}

(* C8: after every completed token-gated check-in or check-out (the step   *)
(* in which handle_callback creates the new token), exactly one unused     *)
(* token exists in the token store.                                        *)
C8_OneUnusedAfterAction ==
    [][\A p \in Req :
          (req[p].kind = "callback" /\ req[p].pc = "create_token" /\ req'[p].pc = "done")
             => Cardinality({t \in DOMAIN tokens' : tokens'[t].used = 0}) = 1]_vars

\* the actions of user u in id order
ActionsOf(u) ==
    LET F[n \in 0..Len(events)] ==
            IF n = 0 THEN <<>>
            ELSE IF events[n].user_id = u THEN Append(F[n - 1], events[n].action)
            ELSE F[n - 1]
    IN  F[Len(events)]

Tested ==
    {p \in Req : req[p].kind \in {"callback", "remote_start", "remote_end", "reminder"}
                 /\ req[p].top # "-"}

(* C4: a check-in attempted while the user's latest event (by id) is in, a *)
(* check-out attempted while it is out, and a check-out by a user with no  *)
(* events are rejected, and the rejected request appends no event.         *)
C4_DuplicateStateRejected ==
    \A p \in Tested :
        (\/ req[p].action = "in" /\ req[p].top = "in"
         \/ req[p].action = "out" /\ req[p].top \in {"out", "none"})
            => /\ req[p].outcome = "rejected"
               /\ \A i \in DOMAIN events : events[i].by # p

IsDescending(r) == \A a, b \in 1..Len(r) : a < b => r[a] > r[b]

(* C9: get_user_events(user, n) returns the user's events in descending id *)
(* order, so its first element is the user's highest-id event, for every   *)
(* event log.                                                              *)
C9_LatestFirstById ==
    \A u \in Users : \A n \in 1..MaxEvents :
        \A r \in GetUserEvents(u, n) :
            /\ IsDescending(r)
            /\ r # <<>> => r[1] = MaxId(u)

\* the user has events and the last of them in id order is an in
EndsWithIn(u) ==
    /\ ActionsOf(u) # <<>>
    /\ ActionsOf(u)[Len(ActionsOf(u))] = "in"

(* C10: get_currently_present returns exactly the registered users whose   *)
(* highest-id event has action in, each of them once.                      *)
C10_PresentIffLastIsIn ==
    /\ {events[i].user_id : i \in GetCurrentlyPresent} = {u \in people : EndsWithIn(u)}
    /\ \A i, j \in GetCurrentlyPresent : events[i].user_id = events[j].user_id => i = j

\* one user is present after an earlier event of another user, who has left
C10_Witness ==
    \E u, v \in people :
        /\ u # v
        /\ EndsWithIn(u)
        /\ ActionsOf(v) = <<"in", "out">>
        /\ GetCurrentlyPresent # {}

\* the id of the user's event before row i, 0 if row i is the user's first
PrevId(i) ==
    LET before == {j \in EventsOf(events[i].user_id) : j < i}
    IN  IF before = {} THEN 0 ELSE CHOOSE j \in before : \A k \in before : k <= j

----------------------------------------------------------------------------
(* Properties of the reports *)

\* a step of a report request
ReportStep == \E p \in Req : req'[p] # req[p] /\ req'[p].kind = "compare"

C19_SelfComparisonIsZero ==
    \A p \in Req :
        (req[p].kind = "compare" /\ req[p].pc = "done")
           => req[p].diff = [unique_users_diff |-> 0, checkins_diff |-> 0,
                             checkouts_diff |-> 0, work_days_diff |-> 0]

\* the places of a listing where an out directly follows an in
InOutAt(l) ==
    {n \in 2..Len(l) : events[l[n - 1]].action = "in" /\ events[l[n]].action = "out"}

\* the in/out pairs of a listing, each out with the in directly before it
AdjacentPairs(l) ==
    LET P[n \in 0..Len(l)] ==
            IF n = 0 THEN <<>>
            ELSE IF n \in InOutAt(l)
            THEN Append(P[n - 1], [start |-> events[l[n - 1]].ts,
                                   end |-> <<events[l[n]].ts>>])
            ELSE P[n - 1]
    IN  P[Len(l)]

\* the sum of the durations of a sequence of completed intervals
RECURSIVE SumDurations(_)
SumDurations(pairs) ==
    IF pairs = <<>> THEN 0
    ELSE (Head(pairs).end[1] - Head(pairs).start) + SumDurations(Tail(pairs))

\* the completed intervals of an interval list
Completed(intervals) == SelectSeq(intervals, LAMBDA iv : iv.end # <<>>)

(* C13: the pairing scan pairs each out with the most recent in seen since *)
(* the previous out, that is with the in directly before it in the list:   *)
(* an in that arrives while a check-in is open replaces it, an out with no *)
(* open check-in emits nothing.  Both get_employees_by_date and            *)
(* get_work_time pair this way, over the rows of any window of dates.      *)
C13_PairsMostRecentIn ==
    \A u \in Users : \A start, end \in AggDates :
        \A l \in GetEventsByPeriod(u, start, end) :
            /\ Completed(EmployeeIntervals(l)) = AdjacentPairs(l)
            /\ PairSeconds(l) = SumDurations(AdjacentPairs(l))

\* a day of a user reads in, in, out at three different times: one
\* interval, from the second in to the out
C13_Witness ==
    \E u \in Users : \E l \in GetEventsByPeriod(u, 0, 1) :
        /\ Len(l) = 3
        /\ events[l[1]].action = "in" /\ events[l[2]].action = "in"
        /\ events[l[3]].action = "out"
        /\ events[l[1]].ts < events[l[2]].ts /\ events[l[2]].ts < events[l[3]].ts
        /\ AdjacentPairs(l) = <<[start |-> events[l[2]].ts, end |-> <<events[l[3]].ts>>]>>

\* the sum of the durations of the pairs that last more than 0 and less
\* than a day
RECURSIVE ValidSum(_)
ValidSum(pairs) ==
    IF pairs = <<>> THEN 0
    ELSE LET duration == Head(pairs).end[1] - Head(pairs).start
         IN  (IF 0 < duration /\ duration < DayLen THEN duration ELSE 0)
                + ValidSum(Tail(pairs))

(* C14: what get_work_time, the cells and totals of get_pivot_report and   *)
(* get_top_workers add up is the durations of the in/out pairs that last   *)
(* more than 0 and less than a day: pairs of zero, negative or longer      *)
(* duration add nothing, and no aggregate is negative.                     *)
C14_OnlyValidDurationsCount ==
    \A u \in Users :
        /\ \A d \in AggDates : \A l \in GetEventsByPeriod(u, d, d) :
              PairSeconds(l) = ValidSum(AdjacentPairs(l)) /\ PairSeconds(l) >= 0
        /\ \A start, end \in AggDates : \A l \in GetEventsByPeriod(u, start, end) :
              /\ \A d \in DaysOf(l) :
                    PivotData(l)[d] = ValidSum(AdjacentPairs(DayRows(l, d)))
              /\ PivotTotal(l) >= 0
        /\ \A l \in TopWorkerRows(u) :
              /\ \A d \in DaysOf(l) :
                    TopDaySeconds(l, d) = ValidSum(AdjacentPairs(DayRows(l, d)))
              /\ TopWorkerTotals(l).total_seconds >= 0

\* a user's rows hold an in and its out a day or more later, and one user
\* has an in and an out at the same time: none of them adds to a sum
C14_Witness ==
    /\ \E u \in Users : \E l \in GetEventsByPeriod(u, 0, DateOf(MaxAggTime)) :
          /\ \E n \in 1..Len(AdjacentPairs(l)) :
                AdjacentPairs(l)[n].end[1] - AdjacentPairs(l)[n].start >= DayLen
          /\ \A d \in AggDates : GetWorkTime(u, d) = {0}
          /\ PivotTotal(l) = 0
    /\ \E u \in Users : \E l \in TopWorkerRows(u) :
          /\ \E n \in 1..Len(AdjacentPairs(l)) :
                AdjacentPairs(l)[n].end[1] = AdjacentPairs(l)[n].start
          /\ TopWorkerTotals(l).total_seconds = 0

(* C15: when the rows scanned for a user end with an in, the interval list *)
(* of get_employees_by_date ends with one open-ended interval, which       *)
(* starts at that in and has no end, and it is the only open-ended one;    *)
(* the open session adds nothing to get_work_time or to the pivot cell of  *)
(* the day, which hold the seconds of the completed pairs only.            *)
C15_OpenSessionAtEnd ==
    \A d \in AggDates : \A u \in EmployeesOn(d) :
        \A l \in GetEventsByPeriod(u, d, d) :
            (l # <<>> /\ events[l[Len(l)]].action = "in")
               => LET intervals == FormatIntervals(EmployeeIntervals(l))
                      last == intervals[Len(intervals)]
                  IN  /\ intervals \in GetEmployeesByDate(u, d)
                      /\ intervals # <<>>
                      /\ last = [start |-> FormatTimeUtcToMsk(events[l[Len(l)]].ts),
                                 end |-> <<>>]
                      /\ \A n \in 1..(Len(intervals) - 1) : intervals[n].end # <<>>
                      /\ PairSeconds(l) = SumDurations(AdjacentPairs(l))
                      /\ PivotData(l)[d] = SumDurations(AdjacentPairs(l))

\* a registered user has a completed interval and then an open session on
\* one day
C15_Witness ==
    \E u \in people : \E d \in AggDates : \E l \in GetEventsByPeriod(u, d, d) :
        /\ Len(l) = 3
        /\ events[l[3]].action = "in"
        /\ Len(EmployeeIntervals(l)) = 2
        /\ EmployeeIntervals(l)[2].end = <<>>
        /\ PairSeconds(l) = 1

\* the hours a pivot row shows for a day: the cell, 0 where there is none
PivotHours(l, d) == IF d \in DaysOf(l) THEN PivotData(l)[d] ELSE 0

\* the places of a listing where an out follows its in on a later date,
\* less than a day after it
OverMidnightAt(l) ==
    {n \in InOutAt(l) :
        /\ DateOf(events[l[n - 1]].ts) # DateOf(events[l[n]].ts)
        /\ events[l[n]].ts - events[l[n - 1]].ts < DayLen}

(* C16: in get_pivot_report and get_top_workers a completed pair whose in  *)
(* and out fall on different dates, less than a day apart, counts with its *)
(* full duration for the date of its in: the hours of that date are at     *)
(* least the duration of the pair.                                         *)
C16_OverMidnightCountsForStartDate ==
    /\ \A start, end \in AggDates : \A u \in PivotEmployees(start, end) :
          \A l \in GetEventsByPeriod(u, start, end) :
              \A n \in OverMidnightAt(l) :
                 PivotHours(l, DateOf(events[l[n - 1]].ts))
                    >= events[l[n]].ts - events[l[n - 1]].ts
    /\ \A u \in people : \A l \in TopWorkerRows(u) :
          \A n \in OverMidnightAt(l) :
             TopDaySeconds(l, DateOf(events[l[n - 1]].ts))
                >= events[l[n]].ts - events[l[n - 1]].ts

(* C17: in the result of get_pivot_report(start, end) the data of every    *)
(* employee on the employee axis holds a cell for every day from start to  *)
(* end, 0 when the employee has no completed interval on that day.         *)
C17_PivotCellForEveryDay ==
    \A start, end \in AggDates :
        \A u \in PivotEmployees(start, end) :
            \A r \in GetPivotReport(u, start, end) :
                \A d \in PivotDays(start, end) : d \in DOMAIN r.data

\* the person has a stored event dated inside the range
HasEventIn(u, start, end) ==
    \E i \in DOMAIN events :
        /\ events[i].user_id = u
        /\ start <= DateOf(events[i].ts) /\ DateOf(events[i].ts) <= end

Standards == 0..DayLen

(* C20: every entry of get_overtime_report has overtime = work_hours -     *)
(* standard > 0 with work_hours the duration get_work_time pairs for that  *)
(* user and day, and every user and day whose paired duration is above the *)
(* standard has an entry.                                                  *)
C20_OvertimeFromPairedDuration ==
    \A start, end \in AggDates : \A standard \in Standards :
        /\ \A r \in GetOvertimeReport(start, end, standard) :
              /\ r.overtime = r.work_hours - standard /\ r.overtime > 0
              /\ r.work_hours \in GetWorkTime(r.user, r.work_date)
        /\ \A u \in people : \A d \in start..end :
              (\A w \in GetWorkTime(u, d) : w > standard)
                 => \E r \in GetOvertimeReport(start, end, standard) :
                       r.user = u /\ r.work_date = d

\* the limits tried
Limits == 1..NumUsers

\* the summed duration of the user's completed intervals, for a listing of
\* the user's rows of the window
CompletedSum(l) == ValidSum(AdjacentPairs(l))

(* C21: get_top_workers(limit) returns at most limit users, ordered by the *)
(* summed duration of their completed intervals descending, and of two     *)
(* users with equal sums the one with the lower user id comes first.       *)
C21_TopWorkersRanked ==
    \A limit \in Limits : \A f \in TopWorkerListings :
        LET r == GetTopWorkers(f, limit)
        IN  /\ Len(r) <= limit
            /\ \A a, b \in 1..Len(r) :
                  a < b => \/ CompletedSum(f[r[a]]) > CompletedSum(f[r[b]])
                           \/ /\ CompletedSum(f[r[a]]) = CompletedSum(f[r[b]])
                              /\ r[a] < r[b]

----------------------------------------------------------------------------
(* Properties of the cache *)

\* the requests of the cached reads that have returned
Returned(kinds) == {p \in Req : req[p].kind \in kinds /\ req[p].pc = "done"}

(* C22: when the cache backend fails on every operation no call raises,    *)
(* every Cache.get is a miss and Cache.set and Cache.delete leave the      *)
(* cache as it is, so is_token_valid returns what its SELECT found, the    *)
(* used flag is set exactly by the calls of mark_token_used_if_valid that  *)
(* returned true, and get_daily_stats returns what its query read.          *)
C22_FailOpen ==
    backend = "down" =>
        /\ \A p \in Req : req[p].ret # "raised" /\ ~req[p].hit
        /\ \A t \in TokenValues : tokenCache[t] = "miss"
        /\ reportCache = [daily |-> [d \in ReportDates |-> <<>>], weekly |-> <<>>]
        /\ \A p \in Returned({"valid"}) : req[p].ret = Bool(req[p].seen = "valid")
        /\ \A t \in DOMAIN tokens : tokens[t].used = 1 <=> Winners(t) # {}
        /\ \A p \in Returned({"daily"}) : req[p].result = req[p].stats

\* with the backend down a token was consumed, a later is_token_valid on it
\* returned false, and a daily report returned a count of one check-in
C22_Witness ==
    /\ backend = "down"
    /\ \E p, q \in Req :
          /\ req[p].kind = "consume" /\ req[p].pc = "done" /\ req[p].ret = "true"
          /\ req[q].kind = "valid" /\ req[q].pc = "done" /\ req[q].ret = "false"
          /\ req[q].token = req[p].token
    /\ \E p \in Returned({"daily"}) : req[p].result[1].checkins = 1

(* C23: a cached result is returned only to a call with the query         *)
(* identity of the call that stored it: the same operation with the same   *)
(* arguments.                                                              *)
C23_CacheKeyIsQueryIdentity ==
    \A p \in Req : req[p].hit => req[p].from = <<req[p].kind, req[p].period>>

(* C24: an entry written with a TTL is not served once the TTL has run    *)
(* out, on the Redis backend and on the in-memory fallback alike: a        *)
(* get_daily_stats call is never answered from an entry as old as          *)
(* CACHE_TTL_ANALYTICS or older, so a result cached before an event was    *)
(* appended gives way to one that counts the event.                        *)
C24_TtlEntriesExpire ==
    \A p \in Req :
        (req[p].kind = "daily" /\ req[p].hit) => req[p].age < CacheTtlAnalytics

\* the calls of rate_limit from one address that returned None
PassedLimit(ip) ==
    {p \in Req : req[p].kind = "limit" /\ req[p].user = ip /\ req[p].ret = "none"}

(* C25: no more than max_requests calls of rate_limit from one client      *)
(* address pass the limiter within one window: of the calls from one       *)
(* address that returned None, any max_requests + 1 are spread over a      *)
(* window or more.                                                         *)
C25_AtMostMaxPerWindow ==
    \A ip \in Ips : \A S \in SUBSET PassedLimit(ip) :
        Cardinality(S) > MaxRequests
           => \E p, q \in S : req[q].ts - req[p].ts >= WindowTicks

----------------------------------------------------------------------------
(* Properties of presence, of the terminal and of the day ranges *)

\* get_currently_present lists the user
ListedPresent(u) == \E i \in GetCurrentlyPresent : events[i].user_id = u

(* C26: in every reachable state the two notions of presence agree: a      *)
(* registered user is listed by get_currently_present exactly when the     *)
(* first element of get_user_events(user, 1) is an in, whichever row the   *)
(* query returns first, that is exactly when a further check-in of the     *)
(* user would be rejected.                                                 *)
C26_PresenceNotionsAgree ==
    \A u \in people : \A last_events \in GetUserEvents(u, 1) :
        ListedPresent(u) <=> (last_events # <<>> /\ events[last_events[1]].action = "in")

(* C27: the token a terminal request obtains, from get_active_token or    *)
(* else from create_token, is not past its expires_at when the request     *)
(* obtains it.                                                             *)
C27_TerminalTokenNotExpired ==
    \A p \in Req :
        (req[p].kind = "terminal" /\ req[p].pc = "done") => ~req[p].expired

(* C28: every stored event is counted by get_daily_stats for exactly one  *)
(* date, the UTC date of its ts, at whatever time of the day up to the     *)
(* last second it was written: the ranges of the days partition the        *)
(* events.                                                                 *)
C28_DayRangesPartition ==
    \A i \in DOMAIN events :
        {d \in ReportDates : i \in DailyRows(d)} = {DateOf(events[i].ts)}

(* C29: for every user each out event carries the location of the in      *)
(* event it closes, the user's event just before it, whichever handler     *)
(* appended it.                                                            *)
C29_OutKeepsLocationOfIn ==
    \A i \in DOMAIN events :
        (events[i].action = "out" /\ PrevId(i) # 0 /\ events[PrevId(i)].action = "in")
           => events[i].location = events[PrevId(i)].location


----------------------------------------------------------------------------
(* Properties of the reminders *)

\* the open sessions a reminder is due for: the user's last event is this
\* check-in, it is 8 hours old or older and today is a working day
ReminderDue(i) ==
    /\ i \in OpenSessionsOlderThan(ReminderAge)
    /\ IsWorkingDay(now)

\* a reminder about the session, or one that arrived while it was open
Reminded(i) ==
    \E n \in DOMAIN reminders : reminders[n].session = i \/ reminders[n].last = i

\* no session has two reminders
NoSecondReminder ==
    \A n, m \in DOMAIN reminders :
       n # m => /\ reminders[n].session # reminders[m].session
                /\ reminders[n].last = reminders[m].last
                      => events[reminders[n].last].action # "in"

\* every session a reminder is due for gets one or is closed
EveryDueSessionReminded ==
    \A i \in 1..NumReq : ReminderDue(i) ~> (Reminded(i) \/ i \notin GetCurrentlyPresent)

(* C30: with the reminder job and the cleanup job running again and again, *)
(* every session that stays open for 8 hours or more on a working day      *)
(* eventually gets a reminder, whatever check-ins, check-outs and earlier  *)
(* reminders came before it, and no user gets a second reminder for the    *)
(* same open session.                                                      *)
C30_EveryLongSessionRemindedOnce == []NoSecondReminder /\ EveryDueSessionReminded
=========================================================================
